---- MODULE Spec2Model ----
(***************************************************************************)
(* Model of cmd/accounting-reader.go: the accounter (a concurrently        *)
(* updated transfer counter), its background writer goroutine and the      *)
(* once-guarded Stat.                                                      *)
(*                                                                         *)
(* Time is counted in milliseconds.  Add, Set and Read are one atomic      *)
(* instruction on a.current each and are one step.  Stat is split at its   *)
(* accesses to a.current and at the mutex of finishOnce; the writer        *)
(* goroutine is split at its select.  log is the history of completed      *)
(* calls, in the order they returned; the field at of an entry is the      *)
(* length of the history when the call was made.                           *)
(***************************************************************************)
EXTENDS Integers, Sequences, FiniteSets, TLC

\* ---------------------------------------------------------------- bounds
NumThreads == 2          \* goroutines calling into the accounter
MaxCalls == 3            \* calls made in one behaviour
MaxN == 1                \* largest argument of Add and Set
MaxLen == 1              \* longest buffer handed to Read
MaxTotal == 1            \* largest total given to newAccounter
MaxTicks == 1            \* clock advances in one behaviour
MaxAbs == 6              \* largest magnitude of the value given to write
MaxElapsed == 4          \* longest elapsed time given to write, in intervals

\* ------------------------------------------------------------- constants
Millisecond == 1
Second == 1000 * Millisecond
refreshRate == Millisecond * 200
startValue == 0
NoValue == 0 - 1

Threads == 1..NumThreads
Bytes == {0}
Buffers == UNION {[1..l -> Bytes] : l \in 0..MaxLen}
ClockStep == refreshRate

VARIABLES
    current,        \* a.current
    Total,          \* a.Total
    startTime,      \* a.startTime
    currentValue,   \* a.currentValue
    isFinished,     \* a.isFinished: "open" or "closed"
    panicked,       \* the runtime panicked (close of closed channel)
    onceDone,       \* a.finishOnce: its done flag
    onceMutex,      \* a.finishOnce: holder of its mutex, 0 when free
    wpc,            \* position of the writer goroutine
    deadline,       \* expiry of the timer of the writer's select
    lateTimer,      \* history: that timer was armed with a.isFinished closed
    now,            \* the wall clock
    pc,             \* position of each calling goroutine
    acntStat,       \* the acntStat of each caller's call of Stat
    at,             \* length of the history when the caller's Stat began
    log             \* history of completed calls

vars == <<current, Total, startTime, currentValue, isFinished, panicked,
          onceDone, onceMutex, wpc, deadline, lateTimer, now, pc,
          acntStat, at, log>>

acctVars == <<current, Total, startTime, currentValue>>
onceVars == <<isFinished, panicked, onceDone, onceMutex>>
writerVars == <<wpc, deadline, lateTimer>>
statVars == <<acntStat, at>>

\* ------------------------------------------------------ float64 division
RECURSIVE GCD(_, _)
GCD(a, b) == IF b = 0 THEN a ELSE GCD(b, a % b)

ZeroSpeed == [num |-> 0, den |-> 1]
PosInf == [num |-> 1, den |-> 0]
NaN == [num |-> 0, den |-> 0]

\* n / d for n >= 0 and d >= 0, as the quotient in lowest terms
FDiv(n, d) ==
    IF d = 0 THEN (IF n = 0 THEN NaN ELSE PosInf)
    ELSE LET g == GCD(n, d) IN [num |-> n \div g, den |-> d \div g]

\* ------------------------------------------------------------ accountStat
accountStat(tot, tr, sp) == [Total |-> tot, Transferred |-> tr, Speed |-> sp]
ZeroStat == accountStat(0, 0, ZeroSpeed)

\* ------------------------------------------------------------- the history
Ev(op, n, ret, p, buf, st, body, a) ==
    [op |-> op, n |-> n, ret |-> ret, err |-> "nil", p |-> p,
     buf |-> buf, stat |-> st, body |-> body, at |-> a]

InFlight == Cardinality({t \in Threads : pc[t] # "idle"})
\* idle goroutines are interchangeable: the lowest one makes the next call
CanCall(t) ==
    /\ ~panicked
    /\ pc[t] = "idle"
    /\ \A u \in Threads : u < t => pc[u] # "idle"
    /\ Len(log) + InFlight < MaxCalls

IsMutator(e) == e.op \in {"Add", "Set", "Read"}
StatEntries == {i \in DOMAIN log : log[i].op = "Stat"}
\* the calls of Stat that ran the body of finishOnce.Do
BodyEntries == {i \in StatEntries : log[i].body}
\* the calls that returned while call i was running
During(i) == {j \in DOMAIN log : log[i].at < j /\ j < i}

\* progress after the calls of a history, from their arguments alone
Apply(v, e) ==
    CASE e.op = "Add" -> v + e.n
      [] e.op = "Set" -> e.n
      [] e.op = "Read" -> v + Len(e.p)
      [] OTHER -> v

RECURSIVE ReplayTo(_, _)
ReplayTo(h, k) == IF k = 0 THEN 0 ELSE Apply(ReplayTo(h, k - 1), h[k])

Replay(h) == ReplayTo(h, Len(h))

Before(i) == SubSeq(log, 1, i - 1)

\* ---------------------------------------------------------------- write
\* the numerator taken from a.currentValue instead of a.startValue
writeFromLast(c, t) ==
    LET fromStart == t - startTime
        currentFromStart == c - currentValue
    IN IF currentFromStart > 0
       THEN FDiv(currentFromStart * Second, fromStart)
       ELSE ZeroSpeed

\* write without the test of the numerator
writeNoGuard(c, t) ==
    LET fromStart == t - startTime
        currentFromStart == c - startValue
    IN FDiv(currentFromStart * Second, fromStart)

write(c, t) ==
    LET fromStart == t - startTime
        currentFromStart == c - startValue
    IN IF currentFromStart > 0
       THEN FDiv(currentFromStart * Second, fromStart)
       ELSE ZeroSpeed

\* ------------------------------------------------------------------ Init
Init ==
    /\ current = 0
    /\ Total \in {0, MaxTotal}
    /\ now = 0
    /\ startTime = now
    /\ currentValue = NoValue
    /\ isFinished = "open"
    /\ panicked = FALSE
    /\ onceDone = 0
    /\ onceMutex = 0
    /\ wpc = "start"
    /\ deadline = 0
    /\ lateTimer = FALSE
    /\ pc = [t \in Threads |-> "idle"]
    /\ acntStat = [t \in Threads |-> ZeroStat]
    /\ at = [t \in Threads |-> 0]
    /\ log = <<>>

\* ------------------------------------------------------- Add, Set, Read
\* a store where the add should be
AtomicStoreForAdd(cur, n) == n

\* a subtraction where the add should be
AtomicSubInt64(cur, n) == cur - n

AtomicAddInt64(cur, n) == cur + n

\* Add returning the value before the addition
AddReturnsOld(t) ==
    /\ CanCall(t)
    /\ \E n \in 0..MaxN :
         /\ current' = AtomicAddInt64(current, n)
         /\ log' = Append(log, Ev("Add", n, current, <<>>, <<>>,
                                  ZeroStat, FALSE, Len(log)))
    /\ UNCHANGED <<Total, startTime, currentValue, onceVars, writerVars,
                   now, pc, statVars>>

Add(t) ==
    /\ CanCall(t)
    /\ \E n \in 0..MaxN :
         /\ current' = AtomicAddInt64(current, n)
         /\ log' = Append(log, Ev("Add", n, current', <<>>, <<>>,
                                  ZeroStat, FALSE, Len(log)))
    /\ UNCHANGED <<Total, startTime, currentValue, onceVars, writerVars,
                   now, pc, statVars>>

\* Set adding to the current value
SetAdditive(t) ==
    /\ CanCall(t)
    /\ \E n \in 0..MaxN :
         /\ current' = current + n
         /\ log' = Append(log, Ev("Set", n, 0, <<>>, <<>>,
                                  ZeroStat, FALSE, Len(log)))
    /\ UNCHANGED <<Total, startTime, currentValue, onceVars, writerVars,
                   now, pc, statVars>>

Set(t) ==
    /\ CanCall(t)
    /\ \E n \in 0..MaxN :
         /\ current' = n
         /\ log' = Append(log, Ev("Set", n, 0, <<>>, <<>>,
                                  ZeroStat, FALSE, Len(log)))
    /\ UNCHANGED <<Total, startTime, currentValue, onceVars, writerVars,
                   now, pc, statVars>>

\* Read without its call of Add
ReadNoAdd(t) ==
    /\ CanCall(t)
    /\ \E p \in Buffers :
         LET n == Len(p) IN
         /\ log' = Append(log, Ev("Read", n, n, p, p,
                                  ZeroStat, FALSE, Len(log)))
    /\ UNCHANGED <<acctVars, onceVars, writerVars, now, pc, statVars>>

Read(t) ==
    /\ CanCall(t)
    /\ \E p \in Buffers :
         LET n == Len(p) IN
         /\ current' = AtomicAddInt64(current, n)
         /\ log' = Append(log, Ev("Read", n, n, p, p,
                                  ZeroStat, FALSE, Len(log)))
    /\ UNCHANGED <<Total, startTime, currentValue, onceVars, writerVars,
                   now, pc, statVars>>

\* ------------------------------------------------------------------ Stat
\* Stat after finishOnce is done taking a new reading of the accounter
StatCallFresh(t) ==
    /\ CanCall(t)
    /\ IF onceDone = 0
       THEN /\ at' = [at EXCEPT ![t] = Len(log)]
            /\ acntStat' = [acntStat EXCEPT ![t] = ZeroStat]
            /\ pc' = [pc EXCEPT ![t] = "Lock"]
            /\ UNCHANGED log
       ELSE /\ log' = Append(log, Ev("Stat", 0, 0, <<>>, <<>>,
                                     accountStat(Total, current,
                                                 write(current, now)),
                                     FALSE, Len(log)))
            /\ UNCHANGED <<at, acntStat, pc>>
    /\ UNCHANGED <<acctVars, onceVars, writerVars, now>>

\* var acntStat accountStat, and finishOnce.Do's load of the done flag
\* outside the mutex: when the flag is set Do returns at once, and so
\* does Stat
StatCall(t) ==
    /\ CanCall(t)
    /\ IF onceDone = 0
       THEN /\ at' = [at EXCEPT ![t] = Len(log)]
            /\ acntStat' = [acntStat EXCEPT ![t] = ZeroStat]
            /\ pc' = [pc EXCEPT ![t] = "Lock"]
            /\ UNCHANGED log
       ELSE /\ log' = Append(log, Ev("Stat", 0, 0, <<>>, <<>>, ZeroStat,
                                     FALSE, Len(log)))
            /\ UNCHANGED <<at, acntStat, pc>>
    /\ UNCHANGED <<acctVars, onceVars, writerVars, now>>

\* Do without the second test of the done flag
OnceLockNoRecheck(t) ==
    /\ ~panicked
    /\ pc[t] = "Lock"
    /\ onceMutex = 0
    /\ onceMutex' = t
    /\ pc' = [pc EXCEPT ![t] = "Close"]
    /\ UNCHANGED <<acctVars, isFinished, panicked, onceDone, writerVars,
                   now, acntStat, at, log>>

\* Do handing the result of the call that ran the body to a call that
\* finds the done flag set under the mutex
OnceLockCached(t) ==
    /\ ~panicked
    /\ pc[t] = "Lock"
    /\ onceMutex = 0
    /\ IF onceDone = 0
       THEN /\ onceMutex' = t
            /\ pc' = [pc EXCEPT ![t] = "Close"]
            /\ UNCHANGED <<at, log>>
       ELSE /\ \E b \in BodyEntries :
                 log' = Append(log, Ev("Stat", 0, 0, <<>>, <<>>,
                                       log[b].stat, FALSE, at[t]))
            /\ at' = [at EXCEPT ![t] = 0]
            /\ pc' = [pc EXCEPT ![t] = "idle"]
            /\ UNCHANGED onceMutex
    /\ UNCHANGED <<acctVars, isFinished, panicked, onceDone, writerVars,
                   now, acntStat>>

\* finishOnce.Do: taking the mutex and testing the done flag again; when
\* it is set the mutex is released and Stat returns
OnceLock(t) ==
    /\ ~panicked
    /\ pc[t] = "Lock"
    /\ onceMutex = 0
    /\ IF onceDone = 0
       THEN /\ onceMutex' = t
            /\ pc' = [pc EXCEPT ![t] = "Close"]
            /\ UNCHANGED <<at, log>>
       ELSE /\ log' = Append(log, Ev("Stat", 0, 0, <<>>, <<>>, acntStat[t],
                                     FALSE, at[t]))
            /\ at' = [at EXCEPT ![t] = 0]
            /\ pc' = [pc EXCEPT ![t] = "idle"]
            /\ UNCHANGED onceMutex
    /\ UNCHANGED <<acctVars, isFinished, panicked, onceDone, writerVars,
                   now, acntStat>>

\* the body without close(a.isFinished)
StatNoClose(t) ==
    /\ ~panicked
    /\ pc[t] = "Close"
    /\ acntStat' = [acntStat EXCEPT ![t].Total = Total]
    /\ pc' = [pc EXCEPT ![t] = "Transferred"]
    /\ UNCHANGED <<acctVars, onceVars, writerVars, now, at, log>>

\* close(a.isFinished), which makes the first case of the select ready,
\* and acntStat.Total = a.Total (a.Total is never written after construction)
StatClose(t) ==
    /\ ~panicked
    /\ pc[t] = "Close"
    /\ IF isFinished = "closed"
       THEN /\ panicked' = TRUE
            /\ UNCHANGED <<isFinished, pc, acntStat>>
       ELSE /\ isFinished' = "closed"
            /\ acntStat' = [acntStat EXCEPT ![t].Total = Total]
            /\ pc' = [pc EXCEPT ![t] = "Transferred"]
            /\ UNCHANGED panicked
    /\ UNCHANGED <<acctVars, onceDone, onceMutex, wpc, deadline, lateTimer,
                   now, at, log>>

\* Transferred taken from a.currentValue
StatTransferredLast(t) ==
    /\ ~panicked
    /\ pc[t] = "Transferred"
    /\ acntStat' = [acntStat EXCEPT ![t].Transferred = currentValue]
    /\ pc' = [pc EXCEPT ![t] = "Speed"]
    /\ UNCHANGED <<acctVars, onceVars, writerVars, now, at, log>>

\* acntStat.Transferred = a.current, a plain read that races with Add and
\* Set: it yields the value a.current holds at some moment between the
\* lock of finishOnce and the atomic load of line 90, which is the value
\* at this step (a torn read of two values below 2^32 is one of the two)
StatTransferred(t) ==
    /\ ~panicked
    /\ pc[t] = "Transferred"
    /\ acntStat' = [acntStat EXCEPT ![t].Transferred = current]
    /\ pc' = [pc EXCEPT ![t] = "Speed"]
    /\ UNCHANGED <<acctVars, onceVars, writerVars, now, at, log>>

\* Do returning with the mutex of finishOnce still held
StatSpeedNoUnlock(t) ==
    /\ ~panicked
    /\ pc[t] = "Speed"
    /\ LET c == current
           st == [acntStat[t] EXCEPT !.Speed = write(c, now)]
       IN log' = Append(log, Ev("Stat", 0, 0, <<>>, <<>>, st, TRUE, at[t]))
    /\ onceDone' = 1
    /\ acntStat' = [acntStat EXCEPT ![t] = ZeroStat]
    /\ at' = [at EXCEPT ![t] = 0]
    /\ pc' = [pc EXCEPT ![t] = "idle"]
    /\ UNCHANGED <<acctVars, isFinished, panicked, onceMutex, writerVars, now>>

\* acntStat.Speed = a.write(atomic.LoadInt64(&a.current)); then
\* finishOnce.Do's deferred store of the done flag and unlock, and
\* return acntStat.  The clock is read as the load is made.
StatSpeed(t) ==
    /\ ~panicked
    /\ pc[t] = "Speed"
    /\ LET c == current
           st == [acntStat[t] EXCEPT !.Speed = write(c, now)]
       IN log' = Append(log, Ev("Stat", 0, 0, <<>>, <<>>, st, TRUE, at[t]))
    /\ onceDone' = 1
    /\ onceMutex' = 0
    /\ acntStat' = [acntStat EXCEPT ![t] = ZeroStat]
    /\ at' = [at EXCEPT ![t] = 0]
    /\ pc' = [pc EXCEPT ![t] = "idle"]
    /\ UNCHANGED <<acctVars, isFinished, panicked, writerVars, now>>

\* ---------------------------------------------------- the writer goroutine
\* Update without a.currentValue = c
UpdateNoStore == UNCHANGED currentValue

\* Update: c := atomic.LoadInt64(&a.current); if c != a.currentValue
\* { a.write(c); a.currentValue = c }.  Only this goroutine uses
\* a.currentValue, and the result of write is dropped.
Update ==
    LET c == current IN
      IF c # currentValue
      THEN /\ write(c, now) \in {ZeroSpeed, PosInf, write(c, now)}
           /\ currentValue' = c
      ELSE UNCHANGED currentValue

\* break where the return should be: it leaves the select, not the
\* loop, which comes round to the select again
WriterReturnBreak ==
    /\ wpc' = "select"
    /\ deadline' = now + refreshRate
    /\ lateTimer' = TRUE
    /\ UNCHANGED currentValue

\* case <-a.isFinished: return
WriterReturn ==
    /\ wpc' = "done"
    /\ deadline' = 0
    /\ lateTimer' = FALSE
    /\ UNCHANGED currentValue

\* the goroutine returning after a.Update(), without a select
WriterLoopOnce ==
    /\ Update
    /\ wpc' = "done"
    /\ deadline' = 0
    /\ lateTimer' = FALSE

\* a.Update() and the way to the select, where time.After arms a new
\* timer: the first call on line 65, and the timer case of each turn of
\* the loop
WriterLoop ==
    /\ Update
    /\ deadline' = now + refreshRate
    /\ lateTimer' = (isFinished = "closed")
    /\ wpc' = "select"

\* go acct.writer(): the first a.Update(), up to the select
WriterStart ==
    /\ ~panicked
    /\ wpc = "start"
    /\ WriterLoop
    /\ UNCHANGED <<current, Total, startTime, onceVars, now, pc, statVars, log>>

\* a select that does not look at a.isFinished while its timer runs
WriterSelectTimerFirst ==
    /\ ~panicked
    /\ wpc = "select"
    /\ now >= deadline
    /\ WriterLoop
    /\ UNCHANGED <<current, Total, startTime, onceVars, now, pc, statVars, log>>

\* the select: a.isFinished can proceed when it is closed, the timer when
\* it has expired; the goroutine waits while neither can, and of two
\* cases that can the runtime takes one at random.  Nothing bounds the
\* time between time.After and the select, so that the timer may expire
\* before the cases are looked at.
WriterSelect ==
    /\ ~panicked
    /\ wpc = "select"
    /\ \/ isFinished = "closed" /\ WriterReturn
       \/ now >= deadline /\ WriterLoop
    /\ UNCHANGED <<current, Total, startTime, onceVars, now, pc, statVars, log>>

\* ------------------------------------------------------------- the clock
Tick ==
    /\ ~panicked
    /\ now < MaxTicks * ClockStep
    /\ now' = now + ClockStep
    /\ UNCHANGED <<acctVars, onceVars, wpc, deadline, lateTimer, pc,
                   statVars, log>>

\* ------------------------------------------------------------------ Next
writer == WriterStart \/ WriterSelect

\* a panic ends the program: no step is taken after it
Next ==
    \/ \E t \in Threads : Add(t)
    \/ \E t \in Threads : Set(t)
    \/ \E t \in Threads : Read(t)
    \/ \E t \in Threads : StatCall(t)
    \/ \E t \in Threads : OnceLock(t)
    \/ \E t \in Threads : StatClose(t)
    \/ \E t \in Threads : StatTransferred(t)
    \/ \E t \in Threads : StatSpeed(t)
    \/ WriterStart
    \/ WriterSelect
    \/ Tick

Spec == Init /\ [][Next]_vars

\* the Go scheduler runs a runnable goroutine eventually: the writer
\* goroutine is not starved
FairSpec == Spec /\ WF_vars(writer)

\* ----------------------------------------------------- write on its own
\* write applied once to a value of a.current, which Set can make any
\* int64, negative ones included, and to an elapsed time
WriteInit ==
    /\ current \in (0 - MaxAbs)..MaxAbs
    /\ Total = 0
    /\ now = 0
    /\ startTime = now
    /\ currentValue = NoValue
    /\ isFinished = "open"
    /\ panicked = FALSE
    /\ onceDone = 0
    /\ onceMutex = 0
    /\ wpc = "start"
    /\ deadline = 0
    /\ lateTimer = FALSE
    /\ pc = [t \in Threads |-> "idle"]
    /\ acntStat = [t \in Threads |-> ZeroStat]
    /\ at = [t \in Threads |-> 0]
    /\ log = <<>>

WriteTick ==
    /\ log = <<>>
    /\ now < MaxElapsed * ClockStep
    /\ now' = now + ClockStep
    /\ UNCHANGED <<acctVars, onceVars, writerVars, pc, statVars, log>>

\* a.write(c) with c the value of a.current, at the time now
WriteCall ==
    /\ log = <<>>
    /\ log' = <<Ev("write", current, 0, <<>>, <<>>,
                   accountStat(0, 0, write(current, now)), FALSE, 0)>>
    /\ UNCHANGED <<acctVars, onceVars, writerVars, now, pc, statVars>>

WriteNext == WriteCall \/ WriteTick

WriteSpec == WriteInit /\ [][WriteNext]_vars

\* ================================================================ claims
InBody == {t \in Threads : pc[t] \in {"Close", "Transferred", "Speed"}}

\* C1: every call of Stat on one accounter returns the identical
\* accountStat, the call that ran the body and every other call alike.
C1_AllStatsIdentical ==
    \A i \in StatEntries : \A j \in StatEntries : log[i].stat = log[j].stat

\* C2: the body of finishOnce.Do runs exactly once whatever the number of
\* concurrent and repeated callers of Stat, a.isFinished is closed exactly
\* once (a second close panics), and once a call has run the body the
\* accounter stays finalized.
C2_FinalizeOnce ==
    /\ ~panicked
    /\ Cardinality(BodyEntries) + Cardinality(InBody) <= 1
    /\ (isFinished = "closed") =>
          Cardinality(BodyEntries) + Cardinality(InBody) = 1
    /\ (BodyEntries # {}) <=> (onceDone = 1)
    /\ (BodyEntries # {}) => isFinished = "closed"
    /\ (StatEntries # {}) => BodyEntries # {}

C2_Witness ==
    /\ isFinished = "closed"
    /\ Cardinality(BodyEntries) = 1
    /\ \E i \in StatEntries : \E j \in StatEntries :
         i < j /\ log[j].at < i /\ ~log[j].body

\* C3: with no call of Set, a.current is the sum of the amounts of all
\* completed updates (Add, and the Add inside Read), in every interleaving
\* of the callers, the writer goroutine and Stat.
C3_ProgressIsSum ==
    (\A i \in DOMAIN log : log[i].op # "Set") => current = Replay(log)

C3_Witness ==
    /\ \A i \in DOMAIN log : log[i].op # "Set"
    /\ \E i \in DOMAIN log : \E j \in DOMAIN log : \E k \in BodyEntries :
         /\ i < j /\ j < k
         /\ log[i].op = "Add" /\ log[i].n > 0
         /\ log[j].op = "Add" /\ log[j].n > 0
         /\ j \in During(k)
    /\ current = 2
    /\ currentValue >= 0

\* C4: the call of Stat that runs the body, when no Add, Set or Read takes
\* effect while it runs, returns Transferred equal to the progress made by
\* the calls before it and Total equal to the total of newAccounter.
C4_TransferredIsProgress ==
    \A i \in BodyEntries :
        (\A j \in During(i) : ~IsMutator(log[j])) =>
            /\ log[i].stat.Transferred = Replay(SubSeq(log, 1, log[i].at))
            /\ log[i].stat.Total = Total

C4_Witness ==
    \E i \in BodyEntries :
        /\ \A j \in During(i) : ~IsMutator(log[j])
        /\ log[i].at >= 1
        /\ log[i].stat.Transferred > 0
        /\ log[i].stat.Total > 0
        /\ currentValue # log[i].stat.Transferred

\* C5 as stated: when the first call of Stat has returned, the writer
\* goroutine has terminated.
C5_WriterDoneAtReturn ==
    (BodyEntries # {}) => wpc = "done"

\* C5 as amended: when the first call of Stat has returned, a.isFinished
\* is closed and the writer goroutine, which may still be running, is not
\* waiting for the interval timer: it has a step to take.
C5_StopSignalledAtReturn ==
    (BodyEntries # {}) =>
        /\ isFinished = "closed"
        /\ wpc # "done" => ENABLED writer

C5_Witness ==
    /\ BodyEntries # {}
    /\ wpc = "select"
    /\ now >= deadline

C7_ProgressNeverDecreases ==
    [][current' >= current]_vars

\* C7 as amended: a.current is lowered by no step but a call Set(n) with n
\* below the current value, which leaves it at n.
C7_OnlySetLowers ==
    [][current' < current =>
         /\ Len(log') = Len(log) + 1
         /\ log'[Len(log')].op = "Set"
         /\ log'[Len(log')].n = current']_vars

C7_Witness ==
    \E i \in DOMAIN log :
        /\ log[i].op = "Set"
        /\ log[i].n < Replay(Before(i))
        /\ \E j \in DOMAIN log : j < i /\ log[j].op \in {"Add", "Read"}
        /\ \E j \in DOMAIN log : j > i /\ log[j].op = "Add" /\ log[j].n > 0

\* C8: the call of Stat that runs the body, when no Add, Set or Read took
\* effect before it returned, returns Transferred 0 and Speed 0, whatever
\* the total and the number of refreshes.
C8_NoUpdatesZero ==
    \A i \in BodyEntries :
        (\A j \in 1..(i - 1) : ~IsMutator(log[j])) =>
            /\ log[i].stat.Transferred = 0
            /\ log[i].stat.Speed = ZeroSpeed

C8_Witness ==
    /\ 1 \in BodyEntries
    /\ log[1].stat.Total > 0
    /\ now > 0
    /\ currentValue = 0

\* C9: Set(n) overwrites: after a call Set(n) that no Add, Set or Read
\* follows, a.current is n, whatever it was before.
C9_SetOverwrites ==
    \A i \in DOMAIN log :
        (log[i].op = "Set" /\ \A j \in DOMAIN log : j > i => ~IsMutator(log[j]))
            => current = log[i].n

C9_Witness ==
    \E i \in DOMAIN log :
        /\ i > 1
        /\ log[i].op = "Set"
        /\ log[i - 1].op = "Set" /\ log[i - 1].n > log[i].n
        /\ Replay(Before(i - 1)) > 0
        /\ \A j \in DOMAIN log : j > i => ~IsMutator(log[j])
        /\ current = log[i].n

\* C10: Read(p) returns len(p) and no error, leaves p as it was and adds
\* len(p) to a.current, before and after the accounter is finalized.
C10_ReadCounts ==
    /\ \A i \in DOMAIN log :
         log[i].op = "Read" =>
            /\ log[i].ret = Len(log[i].p)
            /\ log[i].err = "nil"
            /\ log[i].buf = log[i].p
    /\ (log # <<>> /\ log[Len(log)].op = "Read") =>
          current = Replay(Before(Len(log))) + Len(log[Len(log)].p)

C10_Witness ==
    /\ log # <<>>
    /\ log[Len(log)].op = "Read"
    /\ Len(log[Len(log)].p) > 0
    /\ \E i \in BodyEntries : i < Len(log)
    /\ Replay(Before(Len(log))) > 0
    /\ current = Replay(Before(Len(log))) + Len(log[Len(log)].p)

\* C11: once the call of Stat that ran the body has returned, Add, Set and
\* Read still take effect on a.current, and no call of Stat made after
\* that return reports them: what it returns is the same whatever was
\* added or set since.
C11_LateUpdatesUnseen ==
    \A i \in BodyEntries :
        /\ current = Replay(log)
        /\ \A j \in StatEntries :
             log[j].at >= i => log[j].stat = ZeroStat

C11_Witness ==
    \E i \in BodyEntries : \E j \in DOMAIN log : \E k \in StatEntries :
        /\ i < j /\ j < k
        /\ log[j].op = "Add" /\ log[j].n > 0
        /\ log[k].at >= j
        /\ current > log[i].stat.Transferred
        /\ log[k].stat.Transferred # current

\* the next step of a call of Stat that is under way
StatStep(t) == OnceLock(t) \/ StatClose(t) \/ StatTransferred(t) \/ StatSpeed(t)

\* C12 as stated: Add, Set and Stat never block: a goroutine that may make
\* a call can make it, and a call of Stat that is under way can take its
\* next step, whatever the other goroutines are doing.
C12_NeverBlocks ==
    \A t \in Threads :
        /\ CanCall(t) => ENABLED Add(t) /\ ENABLED Set(t) /\ ENABLED StatCall(t)
        /\ pc[t] # "idle" => ENABLED StatStep(t)

\* C12 as amended: Add and Set never block, and neither does the call of
\* Stat that runs the body; a call of Stat waits only at the mutex of
\* finishOnce and only while another call of Stat is inside the body,
\* which can itself take its next step.
C12_OnlyOnceWaits ==
    \A t \in Threads :
        /\ CanCall(t) => ENABLED Add(t) /\ ENABLED Set(t) /\ ENABLED StatCall(t)
        /\ pc[t] # "idle" =>
              \/ ENABLED StatStep(t)
              \/ /\ pc[t] = "Lock"
                 /\ onceMutex \in InBody \ {t}
                 /\ ENABLED StatStep(onceMutex)

C12_Witness ==
    \E t \in Threads :
        /\ pc[t] = "Lock"
        /\ ~ENABLED StatStep(t)
        /\ onceMutex \in InBody \ {t}
        /\ ENABLED StatStep(onceMutex)
        /\ wpc = "select"
        /\ ~ENABLED writer

\* C13: Add(n) returns a.current as its own addition left it, the sum of
\* what the calls before it made and n; when every call that changes
\* a.current is an Add of a positive amount, no two of them return the
\* same value and the largest value returned is the final a.current.
C13_AddReturnsSum ==
    /\ \A i \in DOMAIN log :
         log[i].op = "Add" => log[i].ret = Replay(Before(i)) + log[i].n
    /\ (\A i \in DOMAIN log :
          IsMutator(log[i]) => (log[i].op = "Add" /\ log[i].n > 0)) =>
          /\ \A i \in DOMAIN log : \A j \in DOMAIN log :
               (i < j /\ log[i].op = "Add" /\ log[j].op = "Add") =>
                  log[i].ret < log[j].ret
          /\ \A i \in DOMAIN log : log[i].op = "Add" => log[i].ret <= current
          /\ (\E i \in DOMAIN log : log[i].op = "Add") =>
                \E i \in DOMAIN log : log[i].op = "Add" /\ log[i].ret = current

C13_Witness ==
    /\ \A i \in DOMAIN log :
         IsMutator(log[i]) => (log[i].op = "Add" /\ log[i].n > 0)
    /\ \E i \in DOMAIN log : \E j \in DOMAIN log :
         /\ i < j
         /\ log[i].op = "Add" /\ log[j].op = "Add"
         /\ log[i].ret = log[i].n
         /\ log[j].ret = log[i].n + log[j].n
         /\ log[j].ret = current
    /\ InBody # {}

\* C14: the accountStat returned by the call of Stat that ran the body is
\* consistent: its Speed is the speed write computes from its Transferred
\* at some elapsed time, and its Speed is 0 exactly when Transferred minus
\* a.startValue is not positive.
C14_SnapshotConsistent ==
    \A i \in BodyEntries :
        /\ \E k \in 0..MaxTicks :
             log[i].stat.Speed =
                 write(log[i].stat.Transferred, startTime + k * ClockStep)
        /\ (log[i].stat.Speed = ZeroSpeed) <=>
              (log[i].stat.Transferred - startValue <= 0)

\* the next instruction of the caller is the read of a.current on line
\* 89, which is not made through sync/atomic
PlainRead(t) == pc[t] = "Transferred"

\* C15: a.current is read and written through sync/atomic alone: no
\* goroutine is about to make a plain access to it while another
\* goroutine can write it.
C15_NoPlainAccess ==
    \A t \in Threads : \A u \in Threads \ {t} :
        PlainRead(t) => ~ENABLED (Add(u) \/ Set(u) \/ Read(u))

\* C16: write returns exactly 0 when the value it is given minus
\* a.startValue is not positive, whatever the elapsed time, zero included,
\* and a positive finite speed when that difference and the elapsed time
\* are both positive.
C16_WriteZeroOrPositive ==
    (log # <<>> /\ log[1].op = "write") =>
        LET sp == log[1].stat.Speed
            currentFromStart == log[1].n - startValue
            fromStart == now - startTime
        IN /\ currentFromStart <= 0 => sp = ZeroSpeed
           /\ (currentFromStart > 0 /\ fromStart > 0) =>
                 (sp.num > 0 /\ sp.den > 0)

C16_Witness ==
    /\ log # <<>>
    /\ log[1].op = "write"
    /\ log[1].n - startValue < 0
    /\ now - startTime > 0
    /\ log[1].stat.Speed = ZeroSpeed

\* C17: the writer goroutine returns only through the closed a.isFinished:
\* when it has terminated a call of Stat has closed the channel, and while
\* the channel is open it has not terminated and is either runnable or
\* waiting for a timer that is armed and expires within the interval.
C17_ExitOnlyOnStop ==
    /\ wpc = "done" =>
          /\ isFinished = "closed"
          /\ InBody # {} \/ BodyEntries # {}
    /\ isFinished = "open" =>
          /\ wpc \in {"start", "select"}
          /\ wpc = "select" =>
                /\ deadline <= now + refreshRate
                /\ now < deadline \/ ENABLED WriterSelect

C17_Witness ==
    /\ wpc = "done"
    /\ BodyEntries # {}
    /\ now >= refreshRate
    /\ current > 0
    /\ currentValue = current

\* C18: a refresh only observes: a step of the writer goroutine leaves
\* a.current, a.Total and a.startTime as they were (a.startValue and
\* a.refreshRate are never assigned), an Update leaves in a.currentValue
\* the value of a.current it read, changing it only when the two differ,
\* and the first Update is run before any timer is armed or waited for.
C18_RefreshObserves ==
    /\ [](/\ wpc = "start" => deadline = 0
          /\ wpc # "start" => currentValue # NoValue)
    /\ [][writer =>
            /\ current' = current
            /\ Total' = Total
            /\ startTime' = startTime
            /\ wpc' = "select" => currentValue' = current
            /\ wpc' # "select" => currentValue' = currentValue
            /\ currentValue' # currentValue => current # currentValue]_vars

C18_Witness ==
    /\ isFinished = "open"
    /\ wpc = "select"
    /\ now < deadline
    /\ now >= refreshRate
    /\ currentValue > 0
    /\ currentValue = current

\* a.Update() is run by this step of the writer goroutine
Refreshes == writer /\ wpc' = "select"

\* C19 as stated: once a.isFinished is closed at most one Update is run,
\* the first one or the one of an expiry that was pending, and the select
\* never takes a timer that was armed after the close: the goroutine
\* returns from the first select it reaches with such a timer.
C19_StopBeatsTimer ==
    [][(writer /\ lateTimer) => wpc' = "done"]_vars

\* C19 as amended: once a.isFinished is closed the select takes a timer
\* that was armed after the close only when that timer has expired
\* before the select is polled; otherwise the goroutine returns from that
\* select, without waiting, and then the Update run after the close is
\* the first one, or that of a timer armed before the close and expired.
C19_StopBeatsRunningTimer ==
    /\ [](lateTimer =>
            (isFinished = "closed" /\ wpc = "select" /\ ENABLED writer))
    /\ [][(writer /\ lateTimer) =>
             /\ now < deadline => wpc' = "done"
             /\ wpc' = "done" \/ (now >= deadline /\ Refreshes)]_vars
    /\ [][(isFinished = "closed" /\ Refreshes /\ ~lateTimer) =>
             \/ wpc = "start"
             \/ wpc = "select" /\ now >= deadline]_vars

C19_Witness ==
    /\ wpc = "done"
    /\ now < refreshRate
    /\ \E i \in BodyEntries : \E j \in DOMAIN log :
         /\ i < j
         /\ log[j].op = "Add" /\ log[j].n > 0
         /\ currentValue = Replay(SubSeq(log, 1, j))
         /\ currentValue > log[i].stat.Transferred

\* C20: acntStat is a local of each call of Stat and is assigned only in
\* the body, so a call of Stat that does not run the body, whether it
\* lost the race for finishOnce or came after it, returns the zero
\* accountStat, whatever a.Total and a.current are; until then its
\* acntStat is the zero value.
C20_OthersReturnZero ==
    /\ \A j \in StatEntries \ BodyEntries : log[j].stat = ZeroStat
    /\ \A t \in Threads : pc[t] = "Lock" => acntStat[t] = ZeroStat

C20_Witness ==
    \E i \in BodyEntries : \E j \in StatEntries : \E k \in StatEntries :
        /\ log[i].stat.Total > 0
        /\ log[i].stat # ZeroStat
        /\ j > i /\ log[j].at < i
        /\ k > i /\ log[k].at >= i
        /\ log[j].stat = ZeroStat
        /\ log[k].stat = ZeroStat

====
